---------------------------- MODULE Spec2Model ----------------------------
(***************************************************************************)
(* A model of the three batch updaters of the repository:                  *)
(*   "index"     src/index.js          play-by-play updater                *)
(*   "part_000"  src/unnamed/part_000  play-by-play updater, later variant *)
(*   "odds"      src/unnamed/part_001  alternate-lines odds updater        *)
(*                                                                         *)
(* Text is a sequence of one-character strings, so that the tokenizer and  *)
(* the coercions work on characters as the code does.  JavaScript values   *)
(* are tagged records: Str(s), Num(n), Null, Undefined, NaN.               *)
(* Instants are whole seconds since 2025-01-01T00:00:00Z (the code counts  *)
(* milliseconds; the factor 1000 is dropped everywhere).                   *)
(***************************************************************************)
EXTENDS Integers, Sequences, FiniteSets, TLC

(***************************************************************************)
(* JavaScript values                                                       *)
(***************************************************************************)
Null == [t |-> "null"]
Undefined == [t |-> "undefined"]
NaN == [t |-> "NaN"]
Str(s) == [t |-> "string", s |-> s]
Num(n) == [t |-> "number", n |-> n]
Bool(b) == [t |-> "boolean", b |-> b]

IsNullish(v) == v.t \in {"null", "undefined"}

\* JavaScript truthiness of a raw row value: null, undefined and the empty
\* string are falsy, every other string is truthy.
Truthy(v) == v.t = "string" /\ v.s # <<>>

(***************************************************************************)
(* Characters and String.prototype.trim                                    *)
(***************************************************************************)
Quote == "\""
Comma == ","
IsSpace(c) == c \in {" ", "\t", "\r"}

RECURSIVE TrimStart(_)
TrimStart(s) ==
  IF s # <<>> /\ IsSpace(Head(s)) THEN TrimStart(Tail(s)) ELSE s

RECURSIVE TrimEnd(_)
TrimEnd(s) ==
  IF s # <<>> /\ IsSpace(s[Len(s)]) THEN TrimEnd(SubSeq(s, 1, Len(s) - 1)) ELSE s

Trim(s) == TrimEnd(TrimStart(s))

\* h.replace(/"/g, '')
StripQuotes(s) == SelectSeq(s, LAMBDA c : c # Quote)

(***************************************************************************)
(* The line tokenizer: the inner for-loop over lines[i][j]                 *)
(***************************************************************************)
\* values.push(current.trim()) with the trim forgotten
PushValueNoTrim(values, current) == Append(values, current)

PushValue(values, current) == Append(values, Trim(current))

\* a scanner that splits at every comma, quoted or not
RECURSIVE ScanLineNoQuotes(_, _, _, _, _)
ScanLineNoQuotes(line, j, values, current, inQuotes) ==
  IF j > Len(line) THEN PushValue(values, current)
  ELSE LET char == line[j] IN
    IF char = Quote
      THEN ScanLineNoQuotes(line, j + 1, values, current, ~inQuotes)
    ELSE IF char = Comma
      THEN ScanLineNoQuotes(line, j + 1, PushValue(values, current), <<>>, inQuotes)
    ELSE ScanLineNoQuotes(line, j + 1, values, Append(current, char), inQuotes)

RECURSIVE ScanLine(_, _, _, _, _)
ScanLine(line, j, values, current, inQuotes) ==
  IF j > Len(line) THEN PushValue(values, current)
  ELSE LET char == line[j] IN
    IF char = Quote
      THEN ScanLine(line, j + 1, values, current, ~inQuotes)
    ELSE IF char = Comma /\ ~inQuotes
      THEN ScanLine(line, j + 1, PushValue(values, current), <<>>, inQuotes)
    ELSE ScanLine(line, j + 1, values, Append(current, char), inQuotes)

ParseLine(line) == ScanLine(line, 1, <<>>, <<>>, FALSE)

\* lines[0].split(','): a plain split at every comma
RECURSIVE SplitComma(_, _, _)
SplitComma(line, j, current) ==
  IF j > Len(line) THEN <<current>>
  ELSE IF line[j] = Comma THEN <<current>> \o SplitComma(line, j + 1, <<>>)
  ELSE SplitComma(line, j + 1, Append(current, line[j]))

\* lines[0].split(',').map(h => h.trim().replace(/"/g, ''))
ParseHeaders(line) ==
  LET raw == SplitComma(line, 1, <<>>)
  IN [k \in 1..Len(raw) |-> StripQuotes(Trim(raw[k]))]

(***************************************************************************)
(* Numbers: parseFloat and Number on decimal digit strings.  The bounded   *)
(* feeds carry no sign, decimal point or exponent.                         *)
(***************************************************************************)
Digits == <<"0", "1", "2", "3", "4", "5", "6", "7", "8", "9">>
IsDigit(c) == \E d \in 1..10 : Digits[d] = c
DigitValue(c) == (CHOOSE d \in 1..10 : Digits[d] = c) - 1

RECURSIVE DigitPrefixLen(_)
DigitPrefixLen(s) ==
  IF s # <<>> /\ IsDigit(Head(s)) THEN 1 + DigitPrefixLen(Tail(s)) ELSE 0

RECURSIVE DecimalValue(_)
DecimalValue(s) ==
  IF s = <<>> THEN 0
  ELSE 10 * DecimalValue(SubSeq(s, 1, Len(s) - 1)) + DigitValue(s[Len(s)])

\* parseFloat(text): the longest numeric prefix after leading white space
ParseFloat(s) ==
  LET body == TrimStart(s)
      n == DigitPrefixLen(body)
  IN IF n = 0 THEN NaN ELSE Num(DecimalValue(SubSeq(body, 1, n)))

\* parseInt(text): the longest digit prefix after leading white space
ParseInt(s) ==
  LET body == TrimStart(s)
      n == DigitPrefixLen(body)
  IN IF n = 0 THEN NaN ELSE Num(DecimalValue(SubSeq(body, 1, n)))

\* Number(text): the whole trimmed text must be numeric; the empty text is 0
ToNumber(s) ==
  LET body == Trim(s)
  IN IF body = <<>> THEN Num(0)
     ELSE IF DigitPrefixLen(body) = Len(body) THEN Num(DecimalValue(body))
     ELSE NaN

(***************************************************************************)
(* The coercion helpers                                                    *)
(***************************************************************************)
NAText == <<"N", "A">>

\* a test that forgets the literal 'NA'
IsSentinelNoNA(value) ==
  \/ IsNullish(value)
  \/ value.t = "string" /\ value.s = <<>>

\* value === null || value === undefined || value === '' || value === 'NA'
IsSentinel(value) ==
  \/ IsNullish(value)
  \/ value.t = "string" /\ value.s \in {<<>>, NAText}

\* a coercion that forgets the NaN check
safeNumericKeepNaN(prog, value) ==
  IF IsSentinel(value) THEN Null
  ELSE IF prog = "index" THEN ParseFloat(value.s) ELSE ToNumber(value.s)

\* index.js parses with parseFloat, part_000 with Number
safeNumeric(prog, value) ==
  IF IsSentinel(value) THEN Null
  ELSE LET num == IF prog = "index" THEN ParseFloat(value.s) ELSE ToNumber(value.s)
       IN IF num = NaN THEN Null ELSE num

safeText(value) ==
  IF IsSentinel(value) THEN Null ELSE Str(Trim(value.s))

\* index.js only: parseInt, then the isNaN check
safeInteger(value) ==
  IF IsSentinel(value) THEN Null
  ELSE LET num == ParseInt(value.s)
       IN IF num = NaN THEN Null ELSE num

TrueText == <<"t", "r", "u", "e">>

\* index.js only: value === '1' || value === 'true' || value === true
safeBoolean(value) ==
  IF IsSentinel(value) THEN Null
  ELSE Bool(value.t = "string" /\ value.s \in {<<"1">>, TrueText})

\* parseFloat in both programs
safeDouble(value) ==
  IF IsSentinel(value) THEN Null
  ELSE LET num == ParseFloat(value.s)
       IN IF num = NaN THEN Null ELSE num

\* the helpers each program defines
Helpers ==
  {<<"index", h>> : h \in {"safeNumeric", "safeInteger", "safeText", "safeBoolean", "safeDouble"}}
    \cup {<<"part_000", h>> : h \in {"safeNumeric", "safeText", "safeDouble"}}

ApplyHelper(helper, value) ==
  CASE helper[2] = "safeNumeric" -> safeNumeric(helper[1], value)
    [] helper[2] = "safeInteger" -> safeInteger(value)
    [] helper[2] = "safeText" -> safeText(value)
    [] helper[2] = "safeBoolean" -> safeBoolean(value)
    [] helper[2] = "safeDouble" -> safeDouble(value)

(***************************************************************************)
(* The calendar: Date.UTC, getUTCFullYear and new Date("YYYY-MM-DD")       *)
(***************************************************************************)
SecondsPerDay == 24 * 60 * 60

IsLeap(y) == (y % 4 = 0 /\ y % 100 # 0) \/ y % 400 = 0
LeapsBefore(y) == ((y - 1) \div 4) - ((y - 1) \div 100) + ((y - 1) \div 400)
DaysBeforeYear(y) == 365 * (y - 2025) + LeapsBefore(y) - LeapsBefore(2025)
DaysInMonth(y, m) ==
  IF m = 2 THEN (IF IsLeap(y) THEN 29 ELSE 28)
  ELSE IF m \in {4, 6, 9, 11} THEN 30 ELSE 31

RECURSIVE DaysBeforeMonth(_, _)
DaysBeforeMonth(y, m) ==
  IF m <= 1 THEN 0 ELSE DaysBeforeMonth(y, m - 1) + DaysInMonth(y, m - 1)

\* Date.UTC(y, m - 1, d, hh, mm, ss), with the month counted from 1
DateUTC(y, m, d, hh, mm, ss) ==
  (DaysBeforeYear(y) + DaysBeforeMonth(y, m) + (d - 1)) * SecondsPerDay
    + hh * 3600 + mm * 60 + ss

Years == 2024..2028
FullYear(t) ==
  CHOOSE y \in Years :
    DateUTC(y, 1, 1, 0, 0, 0) <= t /\ t < DateUTC(y + 1, 1, 1, 0, 0, 0)

\* A Date object: its time value, or NaN for an Invalid Date.
AllDigits(s, at) == \A k \in at : IsDigit(s[k])
TwoDigits(s, k) == DecimalValue(SubSeq(s, k, k + 1))

\* the date part YYYY-MM-DD at the head of s, as the seconds of its midnight
DatePart(s) ==
  IF s[5] = "-" /\ s[8] = "-" /\ AllDigits(s, {1, 2, 3, 4, 6, 7, 9, 10})
    THEN LET y == DecimalValue(SubSeq(s, 1, 4))
             m == TwoDigits(s, 6)
             d == TwoDigits(s, 9)
         IN IF m \in 1..12 /\ d >= 1 /\ d <= DaysInMonth(y, m)
              THEN Num(DateUTC(y, m, d, 0, 0, 0))
              ELSE NaN
    ELSE NaN

\* the time part THH:MM:SSZ at s[11..20], as seconds into the day
TimePart(s) ==
  IF /\ s[11] = "T" /\ s[14] = ":" /\ s[17] = ":" /\ s[20] = "Z"
     /\ AllDigits(s, {12, 13, 15, 16, 18, 19})
     /\ TwoDigits(s, 12) <= 23 /\ TwoDigits(s, 15) <= 59 /\ TwoDigits(s, 18) <= 59
    THEN Num(TwoDigits(s, 12) * 3600 + TwoDigits(s, 15) * 60 + TwoDigits(s, 18))
    ELSE NaN

\* new Date(text) for the ISO forms YYYY-MM-DD (UTC midnight) and
\* YYYY-MM-DDTHH:MM:SSZ; any other text of the bounded feeds is an Invalid
\* Date.
NewDate(s) ==
  IF Len(s) = 10 THEN DatePart(s)
  ELSE IF Len(s) = 20
    THEN LET d == DatePart(s)
             t == TimePart(s)
         IN IF d = NaN \/ t = NaN THEN NaN ELSE Num(d.n + t.n)
  ELSE NaN

\* new Date(value) for a JSON value: undefined gives an Invalid Date
NewDateOf(value) == IF value.t = "string" THEN NewDate(value.s) ELSE NaN

\* a >= b on two Date objects: false when either is an Invalid Date
DateGE(a, b) == a.t = "number" /\ b.t = "number" /\ a.n >= b.n
DateLT(a, b) == a.t = "number" /\ b.t = "number" /\ a.n < b.n

(***************************************************************************)
(* Bounds of the model                                                     *)
(***************************************************************************)
Min(a, b) == IF a <= b THEN a ELSE b

\* data lines of a short feed body
MaxLines == 2
\* a long feed body has k * BlockLen data lines, k in 1..MaxBlocks
BlockLen == 50
MaxBlocks == 5
\* characters of a line handed to the tokenizer on its own
MaxLineLen == 5
\* events in the answer of the events endpoint
MaxEvents == 2
\* the odds program asks for the first MaxMarkets of its markets
MaxMarkets == 2
\* the longest text handed to a coercion helper on its own
MaxValueLen == 3

(***************************************************************************)
(* Program constants                                                       *)
(***************************************************************************)
\* sources = [NFLVERSE_SOURCES.pbp, ALT_SOURCES.pbp, ...FALLBACK_SOURCES]
NumSources == 4
\* csvText.length < 10000
MinCsvLength == 10000
batchSize == 100
\* setTimeout(resolve, 200) between batches, in milliseconds
batchDelay == 200

PbpProgs == {"index", "part_000"}
Progs == PbpProgs \cup {"odds"}

(***************************************************************************)
(* Module start-up: the season window and the recency cutoff               *)
(***************************************************************************)
\* a guard without the required-settings check
ConfigPresentAlways(prog, env) == TRUE

\* !SUPABASE_URL || !SUPABASE_SERVICE_ROLE_KEY (|| !ODDS_API_KEY)
ConfigPresent(prog, env) ==
  /\ env.SUPABASE_URL
  /\ env.SUPABASE_SERVICE_ROLE_KEY
  /\ (prog = "odds" => env.ODDS_API_KEY)

nflSeasonStart(prog, t) ==
  IF prog = "index" THEN DateUTC(FullYear(t), 9, 5, 0, 0, 0)
  ELSE DateUTC(2025, 9, 4, 0, 0, 0)

nflSeasonEnd(prog, t) ==
  IF prog = "index" THEN DateUTC(FullYear(t) + 1, 2, 15, 0, 0, 0)
  ELSE DateUTC(2026, 2, 15, 0, 0, 0)

inNflSeason(prog, t) == t >= nflSeasonStart(prog, t) /\ t <= nflSeasonEnd(prog, t)

\* new Date(now.getTime() - 7 * 24 * 60 * 60 * 1000)
cutoffDate(t) == Num(t - 7 * 24 * 60 * 60)

(***************************************************************************)
(* Feed text                                                               *)
(***************************************************************************)
PLAY_ID == <<"p", "l", "a", "y", "_", "i", "d">>
GAME_ID == <<"g", "a", "m", "e", "_", "i", "d">>
GAME_DATE == <<"g", "a", "m", "e", "_", "d", "a", "t", "e">>

Csv(a, b, c) == a \o <<Comma>> \o b \o <<Comma>> \o c

HeaderLine == Csv(PLAY_ID, GAME_ID, GAME_DATE)

Oct27 == <<"2", "0", "2", "5", "-", "1", "0", "-", "2", "7">>
Oct28 == <<"2", "0", "2", "5", "-", "1", "0", "-", "2", "8">>
Jan04 == <<"2", "0", "2", "6", "-", "0", "1", "-", "0", "4">>

LineValid == Csv(<<"7">>, <<"g">>, Oct28)
LinePlayNA == Csv(NAText, <<"g">>, Oct28)
LinePlayText == Csv(<<"7", "x">>, <<"g">>, Oct28)
LineNoGame == Csv(<<"7">>, <<>>, Oct28)
LineOld == Csv(<<"7">>, <<"g">>, Oct27)
LineNoDate == Csv(<<"7">>, <<"g">>, <<>>)
LineBadDate == Csv(<<"7">>, <<"g">>, <<"x">>)
LineShort == <<"7", ",", "g">>
LineQuoted == Csv(<<"7">>, <<Quote, "g", Quote>>, Jan04)
LineBlank == <<" ">>

LineKinds ==
  { LineValid, LinePlayNA, LinePlayText, LineNoGame, LineOld, LineNoDate,
    LineBadDate, LineShort, LineQuoted, LineBlank }

RECURSIVE SeqsUpTo(_, _)
SeqsUpTo(S, n) ==
  IF n = 0 THEN {<<>>}
  ELSE LET shorter == SeqsUpTo(S, n - 1)
       IN shorter \cup {Append(q, x) : q \in shorter, x \in S}

Repeat(x, n) == [k \in 1..n |-> x]

\* the bodies a source can serve, as the lines between the newlines
ShortTexts == {<<HeaderLine>> \o d : d \in SeqsUpTo(LineKinds, MaxLines)}
LongTexts == {<<HeaderLine>> \o Repeat(LineValid, k * BlockLen) : k \in 1..MaxBlocks}
Texts == ShortTexts \cup LongTexts

\* what fetch(url) and response.text() can give
Responses ==
  {[kind |-> "throw"], [kind |-> "status"]}
    \cup {[kind |-> "text", length |-> MinCsvLength - 1, text |-> <<>>]}
    \cup {[kind |-> "text", length |-> MinCsvLength, text |-> t] : t \in Texts}

\* the run's clock
Clocks ==
  { DateUTC(2025, 7, 1, 12, 0, 0),
    DateUTC(2025, 11, 4, 0, 0, 0),
    DateUTC(2026, 1, 10, 12, 0, 0) }

(***************************************************************************)
(* fetchAndParsePbp: the checks on a response and the parse of its body    *)
(***************************************************************************)
\* csvText.split('\n').filter(line => line.trim())
NonBlankLines(text) == SelectSeq(text, LAMBDA l : Trim(l) # <<>>)

\* response.ok and a body of the minimum length
Plausible(resp) == resp.kind = "text" /\ resp.length >= MinCsvLength

\* what the log keeps of a fetch: the source, whether the response was OK
\* with a body of the minimum length, and that body's non-blank lines
FetchEntry(src, resp) ==
  [ src |-> src, plausible |-> Plausible(resp),
    lines |-> IF Plausible(resp) THEN Len(NonBlankLines(resp.text)) ELSE 0 ]

\* a resolver that takes any body of the minimum length
UsableAnyLines(resp) == Plausible(resp)

\* a loop that goes on to the next source whatever the body holds
UsableNever(resp) == FALSE

\* the response is taken: none of the three "continue" checks fires
Usable(resp) == Plausible(resp) /\ Len(NonBlankLines(resp.text)) >= 2

\* row[header] = values[index] || null, read back as row.<name>
Field(headers, values, name) ==
  LET at == {k \in 1..Len(headers) : headers[k] = name}
  IN IF at = {} THEN Undefined
     ELSE LET k == CHOOSE x \in at : \A y \in at : y <= x
          IN IF k > Len(values) \/ values[k] = <<>> THEN Null ELSE Str(values[k])

\* the row object of line i, with the line's number kept for reference
RowOf(headers, values, i) ==
  [ play_id |-> Field(headers, values, PLAY_ID),
    game_id |-> Field(headers, values, GAME_ID),
    game_date |-> Field(headers, values, GAME_DATE),
    ln |-> i ]

\* a parser that takes every line, whatever its token count
WellFormedAlways(headers, values) == TRUE

\* values.length === headers.length
WellFormed(headers, values) == Len(values) = Len(headers)

\* a date filter that admits every row
AdmitAll(prog, row, cutoff) == TRUE

\* the date filter: index.js keeps a row without game_date, part_000 drops it
Admit(prog, row, cutoff) ==
  IF Truthy(row.game_date)
    THEN DateGE(NewDate(row.game_date.s), cutoff)
    ELSE prog = "index"

\* the loop over the data lines: each line is tokenized, and pushed to
\* pbpData when it is well formed and passes the date filter
ParseRows(prog, lines, headers, cutoff) ==
  LET Candidate(k) ==
        LET values == ParseLine(lines[k + 1])
            row == RowOf(headers, values, k + 1)
        IN [ keep |-> WellFormed(headers, values) /\ Admit(prog, row, cutoff),
             row |-> row ]
      all == [k \in 1..(Len(lines) - 1) |-> Candidate(k)]
      kept == SelectSeq(all, LAMBDA c : c.keep)
  IN [k \in 1..Len(kept) |-> kept[k].row]

\* pbpData of a usable body
ParseCsv(prog, text, cutoff) ==
  LET lines == NonBlankLines(text)
  IN ParseRows(prog, lines, ParseHeaders(lines[1]), cutoff)

(***************************************************************************)
(* The stages of a run, as the control reaches their code: the fetch of a  *)
(* source, the split and tokenizing of a body, the date filter of a row,   *)
(* the transformation, the batch loop, the exit handler.  The log keeps    *)
(* the stages in the order of their first entry, how often each was        *)
(* entered from another one, and the one the control is in.                *)
(***************************************************************************)
PhaseOrder == <<"FETCHING", "PARSING", "FILTERING", "ASSEMBLING", "PERSISTING", "DONE">>
PhaseNames == {PhaseOrder[k] : k \in 1..Len(PhaseOrder)}

NoPhases == [order |-> <<>>, count |-> [ph \in PhaseNames |-> 0], last |-> "NONE"]

EnterTimes(log, ph, times) ==
  IF times = 0 THEN log
  ELSE [ order |-> IF log.count[ph] = 0 THEN Append(log.order, ph) ELSE log.order,
         count |-> [log.count EXCEPT ![ph] = @ + times],
         last |-> ph ]

Enter(log, ph) == IF log.last = ph THEN log ELSE EnterTimes(log, ph, 1)

\* the loop over the data lines, entered from the split: a line is tokenized,
\* and when it is well formed its row goes through the date filter before the
\* next line is tokenized
EnterRows(log, lines, headers) ==
  LET n == Len(lines)
      wellFormed == {k \in 2..n : WellFormed(headers, ParseLine(lines[k]))}
      resumed == {k \in 3..n : (k - 1) \in wellFormed}
      parsed == EnterTimes(log, "PARSING", Cardinality(resumed))
      filtered == EnterTimes(parsed, "FILTERING", Cardinality(wellFormed))
  IN [filtered EXCEPT !.last = IF n \in wellFormed THEN "FILTERING" ELSE "PARSING"]

\* one round of the loop over the sources
EnterFetch(log, resp) ==
  LET fetching == Enter(log, "FETCHING")
      lines == NonBlankLines(resp.text)
  IN IF ~Plausible(resp) THEN fetching
     ELSE IF ~Usable(resp) THEN Enter(fetching, "PARSING")
     ELSE EnterRows(Enter(fetching, "PARSING"), lines, ParseHeaders(lines[1]))

(***************************************************************************)
(* The odds program: helpers                                               *)
(***************************************************************************)
ALTERNATE_MARKETS ==
  << "player_pass_yds_alternate", "player_pass_tds_alternate",
     "player_pass_attempts_alternate", "player_pass_completions_alternate",
     "player_pass_interceptions_alternate", "player_rush_yds_alternate",
     "player_rush_attempts_alternate", "player_rush_tds_alternate",
     "player_rush_reception_yds_alternate", "player_reception_yds_alternate",
     "player_receptions_alternate", "player_field_goals_alternate" >>

\* the markets the bounded model asks for
Markets == SubSeq(ALTERNATE_MARKETS, 1, Min(MaxMarkets, Len(ALTERNATE_MARKETS)))

\* a window that starts at the run's instant instead of the day's midnight
WindowStartNow(t) == t

\* Date.UTC(year, month, date of now, 0, 0, 0)
WindowStart(t) == t - (t % SecondsPerDay)

\* a window that is one day short
WindowEndThreeDays(t) == WindowStart(t) + 3 * SecondsPerDay

\* end.setUTCDate(end.getUTCDate() + 4)
WindowEnd(t) == WindowStart(t) + 4 * SecondsPerDay

getUpcomingGamesWindow(t) == [start |-> Num(WindowStart(t)), end |-> Num(WindowEnd(t))]

isInSeason(t) ==
  /\ t >= DateUTC(FullYear(t), 9, 1, 0, 0, 0)
  /\ t <= DateUTC(FullYear(t) + 1, 2, 28, 23, 59, 59)

\* a filter that keeps an event at the window's end
InWindowClosed(e, w) ==
  LET t == NewDateOf(e.commence_time)
  IN DateGE(t, w.start) /\ DateGE(w.end, t)

\* t >= start && t < end, with t = new Date(e.commence_time)
InWindow(e, w) ==
  LET t == NewDateOf(e.commence_time)
  IN DateGE(t, w.start) /\ DateLT(t, w.end)

\* allEvents.filter(...)
FilterEvents(all, w) == SelectSeq(all, LAMBDA e : InWindow(e, w))

\* toNumber(x) on a JSON number or an absent value
toNumber(x) == IF x.t = "number" THEN x ELSE Null

\* !out?.description || out.point === undefined || out.point === null
OutcomeSkipped(out) == ~Truthy(out.description) \/ IsNullish(out.point)

\* \s of a regular expression, as far as the texts here have it
IsWhite(c) == c \in {" ", "\t", "\r", "\n"}

Letters ==
  { "a", "b", "c", "d", "e", "f", "g", "h", "i", "j", "k", "l", "m", "n", "o", "p", "q",
    "r", "s", "t", "u", "v", "w", "x", "y", "z", "A", "B", "C", "D", "E", "F", "G", "H",
    "I", "J", "K", "L", "M", "N", "O", "P", "Q", "R", "S", "T", "U", "V", "W", "X", "Y",
    "Z" }

\* [a-zA-Z0-9_\-]
IsIdChar(c) == c \in Letters \/ IsDigit(c) \/ c \in {"_", "-"}

\* .replace(/\s+/g, '_'): every maximal run of white space becomes one '_'
CollapseWhite(s) ==
  LET tagged == [k \in 1..Len(s) |->
                  [c |-> IF IsWhite(s[k]) THEN "_" ELSE s[k],
                   keep |-> ~IsWhite(s[k]) \/ k = 1 \/ ~IsWhite(s[k - 1])]]
      kept == SelectSeq(tagged, LAMBDA t : t.keep)
  IN [k \in 1..Len(kept) |-> kept[k].c]

\* .replace(/[^a-zA-Z0-9_\-]/g, '')
StripOthers(s) == SelectSeq(s, IsIdChar)

RECURSIVE NatText(_)
NatText(n) ==
  IF n < 10 THEN <<Digits[n + 1]>> ELSE NatText(n \div 10) \o <<Digits[(n % 10) + 1]>>

\* String(v), and what a template literal makes of v
StringOf(v) ==
  IF v.t = "string" THEN v.s
  ELSE IF v.t = "number" THEN NatText(v.n)
  ELSE IF v.t = "undefined" THEN <<"u", "n", "d", "e", "f", "i", "n", "e", "d">>
  ELSE <<"n", "u", "l", "l">>

\* a sanitize that only replaces, one for one, and drops nothing
sanitizeKeepAll(v) ==
  [k \in 1..Len(StringOf(v)) |-> IF IsWhite(StringOf(v)[k]) THEN "_" ELSE StringOf(v)[k]]

sanitize(v) == StripOthers(CollapseWhite(StringOf(v)))

\* the id of a record: six parts joined with '_'; the texts of the event, the
\* bookmaker and the market are kept as one piece each
RecordId(eventId, bookKey, marketKey, out) ==
  <<eventId, "_", bookKey, "_", marketKey, "_">>
    \o sanitize(out.description) \o <<"_">> \o StringOf(out.point) \o <<"_">>
    \o sanitize(out.name)

\* the object pushed to records (the id, the conflict-key columns, the price)
OddsRecord(event, book, mkt, out) ==
  [ id |-> RecordId(event.id, book.key, mkt.key, out),
    event_id |-> event.id,
    bookmaker_key |-> book.key,
    market_key |-> mkt.key,
    player_name |-> out.description,
    outcome_name |-> out.name,
    decimal_price |-> toNumber(out.price),
    line_value |-> out.point ]

RECURSIVE Flatten(_)
Flatten(ss) == IF ss = <<>> THEN <<>> ELSE Head(ss) \o Flatten(Tail(ss))

\* the three nested loops over bookmakers, markets and outcomes
BuildRecords(event, oddsData) ==
  LET books == oddsData.bookmakers
      OfMarket(book, mkt) ==
        LET outs == SelectSeq(mkt.outcomes, LAMBDA out : ~OutcomeSkipped(out))
        IN [k \in 1..Len(outs) |-> OddsRecord(event, book, mkt, outs[k])]
      OfBook(book) ==
        Flatten([m \in 1..Len(book.markets) |-> OfMarket(book, book.markets[m])])
  IN Flatten([b \in 1..Len(books) |-> OfBook(books[b])])

(***************************************************************************)
(* The odds program: what the Odds API can answer                          *)
(***************************************************************************)
Nov03 == <<"2", "0", "2", "5", "-", "1", "1", "-", "0", "3">>
Nov04 == <<"2", "0", "2", "5", "-", "1", "1", "-", "0", "4">>
Nov07 == <<"2", "0", "2", "5", "-", "1", "1", "-", "0", "7">>
Nov08 == <<"2", "0", "2", "5", "-", "1", "1", "-", "0", "8">>
FirstSecond == <<"T", "0", "0", ":", "0", "0", ":", "0", "0", "Z">>
LastSecond == <<"T", "2", "3", ":", "5", "9", ":", "5", "9", "Z">>

\* the events of the bounded answers: around the window of 2025-11-04
EventKinds ==
  { [id |-> "before", commence_time |-> Str(Nov03 \o LastSecond)],
    [id |-> "first", commence_time |-> Str(Nov04 \o FirstSecond)],
    [id |-> "last", commence_time |-> Str(Nov07 \o LastSecond)],
    [id |-> "after", commence_time |-> Str(Nov08 \o FirstSecond)],
    [id |-> "undated", commence_time |-> Undefined],
    [id |-> "baddate", commence_time |-> Str(<<"t", "b", "d">>)] }

EventResponses ==
  {[kind |-> "throw"], [kind |-> "status"]}
    \cup {[kind |-> "json", events |-> es] : es \in SeqsUpTo(EventKinds, MaxEvents)}

Over == <<"O", "v", "e", "r">>
PlayerName == <<"A", ".", " ", "B">>

OutcomeOver ==
  [description |-> Str(PlayerName), point |-> Num(250), name |-> Str(Over), price |-> Num(2)]
OutcomeNoPlayer ==
  [description |-> Undefined, point |-> Num(250), name |-> Str(Over), price |-> Num(2)]
OutcomeNoPoint ==
  [description |-> Str(PlayerName), point |-> Undefined, name |-> Str(Over), price |-> Num(2)]
\* an outcome of the answer without the name member
OutcomeNoName ==
  [description |-> Str(PlayerName), point |-> Num(250), name |-> Undefined, price |-> Num(2)]

Bookmaker(market, outcomes) ==
  [key |-> "draftkings", markets |-> <<[key |-> market, outcomes |-> outcomes]>>]

\* the bodies of the per-market request
OddsBodies(market) ==
  { [bookmakers |-> <<>>],
    [bookmakers |-> <<Bookmaker(market, <<OutcomeNoPlayer, OutcomeNoPoint>>)>>],
    [bookmakers |-> <<Bookmaker(market, <<OutcomeOver, OutcomeNoPlayer>>)>>],
    [bookmakers |-> <<Bookmaker(market, <<OutcomeNoName>>)>>] }

OddsResponses(market) ==
  {[kind |-> "throw"], [kind |-> "status"]}
    \cup {[kind |-> "json", data |-> d] : d \in OddsBodies(market)}

\* the run's clock of the odds program
OddsClocks ==
  { DateUTC(2025, 7, 1, 12, 0, 0),
    DateUTC(2025, 11, 4, 15, 30, 0),
    DateUTC(2026, 1, 10, 12, 0, 0) }


(***************************************************************************)
(* runUpdater of the play-by-play programs: the record assembler           *)
(***************************************************************************)
\* a gate that looks at the coerced values instead of the raw ones
HasIdentityCoerced(prog, play) ==
  /\ safeText(play.game_id) # Null
  /\ safeNumeric(prog, play.play_id) # Null

\* !play.game_id, !play.play_id: the gate reads the raw values
HasIdentity(prog, play) == Truthy(play.game_id) /\ Truthy(play.play_id)

\* the object pushed to transformedPlays (the columns the model keeps)
TypedRecord(prog, play) ==
  [ play_id |-> safeNumeric(prog, play.play_id),
    game_id |-> safeText(play.game_id),
    game_date |-> safeText(play.game_date),
    ln |-> play.ln ]

SkipReasons(play) ==
  (IF Truthy(play.game_id) THEN <<>> ELSE <<"Missing game_id">>)
    \o (IF Truthy(play.play_id) THEN <<>> ELSE <<"Missing play_id">>)

\* an assembler that keeps the first row of each (play_id, game_id) only
TransformedDedup(prog, data) ==
  LET kept == SelectSeq(data, LAMBDA play : HasIdentity(prog, play))
      tagged == [k \in 1..Len(kept) |-> [at |-> k, play |-> kept[k]]]
      first == SelectSeq(tagged, LAMBDA t :
                 \A j \in 1..(t.at - 1) :
                   \/ kept[j].play_id # t.play.play_id
                   \/ kept[j].game_id # t.play.game_id)
  IN [k \in 1..Len(first) |-> TypedRecord(prog, first[k].play)]

\* the for loop over pbpData: a row that passes the gate is pushed, in turn
Transformed(prog, data) ==
  LET kept == SelectSeq(data, LAMBDA play : HasIdentity(prog, play))
  IN [k \in 1..Len(kept) |-> TypedRecord(prog, kept[k])]

\* skippedPlays exists in index.js only
Skipped(prog, data) ==
  IF prog = "index"
    THEN LET out == SelectSeq(data, LAMBDA play : ~HasIdentity(prog, play))
         IN [k \in 1..Len(out) |-> [ln |-> out[k].ln, reasons |-> SkipReasons(out[k])]]
    ELSE <<>>

(***************************************************************************)
(* State                                                                   *)
(***************************************************************************)
VARIABLES
  prog,             \* which program runs
  testMode,         \* process.argv.includes('--test')
  env,              \* which required settings are present
  now,              \* new Date() at start-up
  pc,               \* where the process is
  srcIdx,           \* fetchAndParsePbp: the source the loop is at (1-based)
  fetched,          \* the fetches issued so far, in order
  csvLines,         \* the non-blank lines of the body that was taken
  pbpData,
  transformedPlays,
  skippedPlays,
  i,                \* the batch loop's offset into transformedPlays
  totalProcessed,
  errors,
  upserts,          \* the calls made to supabase.upsert, in order
  pauses,           \* the inter-batch delays waited so far
  result,           \* what runUpdater resolved to
  exitCode,         \* process.exit's argument, -1 while the process runs
  phases,           \* the stages of the run the control has entered
  allEvents,        \* odds: the events endpoint's answer
  events,           \* odds: the events in the window
  eventIdx,         \* odds: the event the outer loop is at (1-based)
  marketIdx,        \* odds: the market the inner loop is at (1-based)
  eventLines,
  totalInserted,
  withData,
  noData,
  records,          \* odds: the records built for the market at hand
  oddsFetches,      \* odds: the per-market requests issued so far
  oddsUpserts,      \* odds: the calls made to supabase.upsert so far
  acceptedLines,    \* odds: the records of the calls that reported no error
  oddsErrored,      \* odds: the upsert calls that returned an error value
  tokLine,          \* the tokenizer on its own: its input,
  tokOut,           \* its output
  tokDone,
  coHelper,         \* a coercion helper on its own: which one,
  coIn,             \* its argument,
  coOut,            \* what it returned
  coDone,
  idA,              \* the id template on its own: two outcomes of an answer,
  idB,
  idOut,            \* the ids of their records
  idDone

cfgVars == <<prog, testMode, env, now>>
pbpVars ==
  << srcIdx, fetched, csvLines, pbpData, transformedPlays, skippedPlays, i,
     totalProcessed, errors, upserts, pauses >>
oddsVars ==
  << allEvents, events, eventIdx, marketIdx, eventLines, totalInserted, withData,
     noData, records, oddsFetches, oddsUpserts, acceptedLines, oddsErrored >>
pipeVars == <<cfgVars, pc, result, exitCode, phases, pbpVars, oddsVars>>
tokVars == <<tokLine, tokOut, tokDone>>
coVars == <<coHelper, coIn, coOut, coDone>>
idVars == <<idA, idB, idOut, idDone>>
vars == <<pipeVars, tokVars, coVars, idVars>>

NoResult == [pending |-> TRUE]

Envs ==
  [SUPABASE_URL : BOOLEAN, SUPABASE_SERVICE_ROLE_KEY : BOOLEAN, ODDS_API_KEY : BOOLEAN]

PipeIdle ==
  /\ srcIdx = 1
  /\ fetched = <<>>
  /\ csvLines = <<>>
  /\ pbpData = <<>>
  /\ transformedPlays = <<>>
  /\ skippedPlays = <<>>
  /\ i = 0
  /\ totalProcessed = 0
  /\ errors = <<>>
  /\ upserts = <<>>
  /\ pauses = <<>>
  /\ result = NoResult
  /\ exitCode = -1
  /\ phases = NoPhases
  /\ allEvents = <<>>
  /\ events = <<>>
  /\ eventIdx = 1
  /\ marketIdx = 1
  /\ eventLines = 0
  /\ totalInserted = 0
  /\ withData = 0
  /\ noData = 0
  /\ records = <<>>
  /\ oddsFetches = 0
  /\ oddsUpserts = 0
  /\ acceptedLines = 0
  /\ oddsErrored = 0

TokIdle == tokLine = <<>> /\ tokOut = <<>> /\ tokDone = FALSE

CoIdle ==
  /\ coHelper = <<"index", "safeText">>
  /\ coIn = Null
  /\ coOut = Null
  /\ coDone = FALSE

IdIdle == idA = OutcomeOver /\ idB = OutcomeOver /\ idOut = <<>> /\ idDone = FALSE

\* The state when the module starts to load.  ODDS_API_KEY is read by the
\* odds program only.
Init ==
  /\ prog \in Progs
  /\ testMode \in BOOLEAN
  /\ env \in Envs
  /\ (prog # "odds" => env.ODDS_API_KEY)
  /\ now \in (IF prog = "odds" THEN OddsClocks ELSE Clocks)
  /\ pc = "startup"
  /\ PipeIdle
  /\ TokIdle
  /\ CoIdle
  /\ IdIdle

(***************************************************************************)
(* Actions of the play-by-play programs                                    *)
(***************************************************************************)
\* module load: the required settings, then runUpdater() is called
Startup ==
  /\ pc = "startup"
  /\ IF ConfigPresent(prog, env)
       THEN pc' = "run" /\ exitCode' = exitCode
       ELSE pc' = "exited" /\ exitCode' = 1
  /\ UNCHANGED <<cfgVars, result, pbpVars, oddsVars, tokVars, coVars, idVars, phases>>

\* a guard that also skips a dry run
SeasonSkipAlways(p, t, test) == ~inNflSeason(p, t)

\* !inNflSeason && !testMode
SeasonSkip(p, t, test) == ~inNflSeason(p, t) /\ ~test

SkippedResult(p) ==
  IF p = "index"
    THEN [success |-> TRUE, message |-> "Outside NFL season - sync skipped", skipped |-> TRUE]
    ELSE [success |-> TRUE, message |-> "Outside NFL season - sync skipped"]

\* runUpdater, up to the first fetch
PbpRun ==
  /\ pc = "run"
  /\ prog \in PbpProgs
  /\ IF SeasonSkip(prog, now, testMode)
       THEN pc' = "exit" /\ result' = SkippedResult(prog)
       ELSE pc' = "fetch" /\ result' = result
  /\ UNCHANGED <<cfgVars, exitCode, pbpVars, oddsVars, tokVars, coVars, idVars, phases>>

\* fetchAndParsePbp threw: index.js catches it around the call, part_000 in
\* runUpdater's outer catch
\* a failed fetch reported as a success
FetchFailedResultOk(p) == [success |-> TRUE, error |-> "Failed to fetch data from all sources"]

FetchFailedResult(p) ==
  IF p = "index"
    THEN [ success |-> FALSE, message |-> "Unable to fetch NFLfastR data",
           error |-> "Failed to fetch data from all sources" ]
    ELSE [success |-> FALSE, error |-> "Failed to fetch data from all sources"]

\* one round of the loop over the sources: the fetch, the checks on the
\* response and, when it is taken, the parse of its body
FetchSource ==
  /\ pc = "fetch"
  /\ prog \in PbpProgs
  /\ srcIdx <= NumSources
  /\ \E resp \in Responses :
       /\ fetched' = Append(fetched, FetchEntry(srcIdx, resp))
       /\ phases' = EnterFetch(phases, resp)
       /\ IF Usable(resp)
            THEN /\ csvLines' = NonBlankLines(resp.text)
                 /\ pbpData' = ParseCsv(prog, resp.text, cutoffDate(now))
                 /\ pc' = "transform"
                 /\ UNCHANGED <<srcIdx, result>>
            ELSE /\ srcIdx' = srcIdx + 1
                 /\ IF srcIdx = NumSources
                      THEN pc' = "exit" /\ result' = FetchFailedResult(prog)
                      ELSE pc' = "fetch" /\ result' = result
                 /\ UNCHANGED <<csvLines, pbpData>>
  /\ UNCHANGED << cfgVars, exitCode, transformedPlays, skippedPlays, i, totalProcessed,
                  errors, upserts, pauses, oddsVars, tokVars, coVars, idVars >>


\* a slice that starts one record early
BatchOverlapping(plays, at) ==
  SubSeq(plays, IF at = 0 THEN 1 ELSE at, Min(at + batchSize, Len(plays)))

\* a slice that is always the first batch
BatchFirst(plays, at) == SubSeq(plays, 1, Min(batchSize, Len(plays)))

\* transformedPlays.slice(i, i + batchSize)
Batch(plays, at) == SubSeq(plays, at + 1, Min(at + batchSize, Len(plays)))

\* Math.floor(i / batchSize) + 1
BatchNum(at) == (at \div batchSize) + 1

\* a driver that counts a batch whatever the collaborator answered
CountedAlways(outcome, batch) == Len(batch)

\* if (!upsertError) totalProcessed += batch.length
Counted(outcome, batch) == IF outcome = "ok" THEN Len(batch) ELSE 0

\* the test of the for loop: i < transformedPlays.length
LoopContinues(at, n) == at < n

\* a driver that never pauses
NeedsPauseNever(at, n) == FALSE

\* a driver that pauses after the last batch too
NeedsPauseAlways(at, n) == TRUE

\* if (i + batchSize < transformedPlays.length) await setTimeout(200)
NeedsPause(at, n) == at + batchSize < n

\* the summary object of index.js (the fields that vary)
Summary(test, n, nSkipped, updateResults) ==
  [ success |-> updateResults.successful > 0 \/ test,
    execution_mode |-> IF test THEN "TEST_MODE" ELSE "LIVE_UPDATE",
    data_transformation |-> [valid_2025_plays |-> n, skipped_plays |-> nSkipped],
    update_results |-> updateResults ]

NoDataResult(p) ==
  IF p = "index"
    THEN [success |-> TRUE, message |-> "No play-by-play data found", plays_found |-> 0]
    ELSE [success |-> TRUE, message |-> "No recent plays found"]

NoValidResult(nData, nSkipped) ==
  [ success |-> TRUE, message |-> "No valid 2025 play-by-play data to update",
    plays_analyzed |-> nData, plays_valid |-> 0, plays_skipped |-> nSkipped ]

\* a dry run that reports nothing as successful
DryRunResultNone(p, n, nSkipped) ==
  IF p = "index"
    THEN Summary(TRUE, n, nSkipped,
                 [attempted |-> n, successful |-> 0, failed |-> 0, errors |-> <<>>])
    ELSE [success |-> TRUE, processed |-> 0]

\* if (testMode): nothing is sent, every record is reported
DryRunResult(p, n, nSkipped) ==
  IF p = "index"
    THEN Summary(TRUE, n, nSkipped,
                 [attempted |-> n, successful |-> n, failed |-> 0, errors |-> <<>>])
    ELSE [success |-> TRUE, processed |-> n]

\* the end of the batch loop
LiveResult(p, n, nSkipped, processed, errs) ==
  IF p = "index"
    THEN Summary(FALSE, n, nSkipped,
                 [ attempted |-> n, successful |-> processed,
                   failed |-> n - processed, errors |-> errs ])
    ELSE [success |-> Len(errs) = 0, processed |-> processed, failed |-> n - processed]

\* upsert threw: index.js catches it around the loop and loses totalProcessed,
\* part_000 lands in runUpdater's outer catch
ThrownResult(p, n, nSkipped, errs) ==
  IF p = "index"
    THEN Summary(FALSE, n, nSkipped,
                 [ attempted |-> n, successful |-> 0, failed |-> n,
                   errors |-> Append(errs, [exception |-> TRUE]) ])
    ELSE [success |-> FALSE, error |-> "upsert threw"]

\* a dry run that still goes on to the batch loop
IsDryRunNever(test) == FALSE

IsDryRun(test) == test

\* runUpdater from the return of fetchAndParsePbp to the first upsert
PbpTransform ==
  /\ pc = "transform"
  /\ prog \in PbpProgs
  /\ LET tp == Transformed(prog, pbpData)
         sk == Skipped(prog, pbpData)
     IN IF Len(pbpData) = 0
          THEN /\ result' = NoDataResult(prog)
               /\ pc' = "exit"
               /\ UNCHANGED <<transformedPlays, skippedPlays, phases>>
          ELSE /\ transformedPlays' = tp
               /\ skippedPlays' = sk
               /\ IF prog = "index" /\ Len(tp) = 0
                    THEN /\ result' = NoValidResult(Len(pbpData), Len(sk))
                         /\ pc' = "exit"
                         /\ phases' = Enter(phases, "ASSEMBLING")
                  ELSE IF IsDryRun(testMode)
                    THEN /\ result' = DryRunResult(prog, Len(tp), Len(sk))
                         /\ pc' = "exit"
                         /\ phases' = Enter(phases, "ASSEMBLING")
                  ELSE IF Len(tp) = 0
                    THEN /\ result' = LiveResult(prog, 0, Len(sk), 0, <<>>)
                         /\ pc' = "exit"
                         /\ phases' = Enter(Enter(phases, "ASSEMBLING"), "PERSISTING")
                  ELSE /\ result' = result
                       /\ pc' = "upsert"
                       /\ phases' = Enter(Enter(phases, "ASSEMBLING"), "PERSISTING")
  /\ UNCHANGED << cfgVars, exitCode, srcIdx, fetched, csvLines, pbpData, i,
                  totalProcessed, errors, upserts, pauses, oddsVars, tokVars, coVars, idVars >>

\* what supabase.upsert can answer: no error, an error value, an exception
UpsertOutcomes == {"ok", "error", "throw"}

\* one round of the batch loop, up to its delay
PbpUpsert ==
  /\ pc = "upsert"
  /\ prog \in PbpProgs
  /\ \E outcome \in UpsertOutcomes :
       LET n == Len(transformedPlays)
           batch == Batch(transformedPlays, i)
           processed == totalProcessed + Counted(outcome, batch)
           errs == IF outcome = "error"
                     THEN Append(errors, [batch |-> BatchNum(i)])
                     ELSE errors
       IN /\ upserts' = Append(upserts, [ num |-> BatchNum(i), payload |-> batch,
                                          outcome |-> outcome ])
          /\ IF outcome = "throw"
               THEN /\ result' = ThrownResult(prog, n, Len(skippedPlays), errors)
                    /\ pc' = "exit"
                    /\ UNCHANGED <<i, totalProcessed, errors>>
               ELSE /\ totalProcessed' = processed
                    /\ errors' = errs
                    /\ IF NeedsPause(i, n)
                         THEN pc' = "pause" /\ UNCHANGED <<i, result>>
                         ELSE /\ i' = i + batchSize
                              /\ IF LoopContinues(i + batchSize, n)
                                   THEN pc' = "upsert" /\ result' = result
                                   ELSE /\ result' = LiveResult(prog, n, Len(skippedPlays),
                                                                processed, errs)
                                        /\ pc' = "exit"
  /\ UNCHANGED << cfgVars, exitCode, srcIdx, fetched, csvLines, pbpData,
                  transformedPlays, skippedPlays, pauses, oddsVars, tokVars, coVars, idVars, phases >>

\* await new Promise(resolve => setTimeout(resolve, 200)), then i += batchSize
PbpPause ==
  /\ pc = "pause"
  /\ prog \in PbpProgs
  /\ pauses' = Append(pauses, [after |-> BatchNum(i), ms |-> batchDelay])
  /\ i' = i + batchSize
  /\ IF LoopContinues(i + batchSize, Len(transformedPlays))
       THEN pc' = "upsert" /\ result' = result
       ELSE /\ result' = LiveResult(prog, Len(transformedPlays), Len(skippedPlays),
                                    totalProcessed, errors)
            /\ pc' = "exit"
  /\ UNCHANGED << cfgVars, exitCode, srcIdx, fetched, csvLines, pbpData,
                  transformedPlays, skippedPlays, totalProcessed, errors, upserts,
                  oddsVars, tokVars, coVars, idVars, phases >>

\* an exit that always reports success
ExitCodeOfZero(res) == 0

\* process.exit(result.success ? 0 : 1)
ExitCodeOf(res) == IF res.success THEN 0 ELSE 1

\* runUpdater().then(result => process.exit(...))
Exit ==
  /\ pc = "exit"
  /\ exitCode' = ExitCodeOf(result)
  /\ pc' = "exited"
  /\ phases' = Enter(phases, "DONE")
  /\ UNCHANGED <<cfgVars, result, pbpVars, oddsVars, tokVars, coVars, idVars>>

(***************************************************************************)
(* Actions of the odds program                                             *)
(***************************************************************************)
OddsSkippedResult ==
  [success |-> TRUE, message |-> "Outside NFL season (skipped)", skipped |-> TRUE]

\* runUpdater's outer catch
OddsFailedResult(why) == [success |-> FALSE, error |-> why]

OddsEmptyResult == [success |-> TRUE, message |-> "No games in 4-day window", inserted |-> 0]

OddsResult(test, nEvents, nWith, nWithout, total) ==
  [ success |-> TRUE, message |-> "Completed", eventsProcessed |-> nEvents,
    eventsWithData |-> nWith, eventsWithNoData |-> nWithout,
    totalLinesInserted |-> total, testMode |-> test ]

\* a guard that also skips a dry run
OddsSeasonSkipAlways(t, test) == ~isInSeason(t)

\* !isInSeason(now) && !testMode
OddsSeasonSkip(t, test) == ~isInSeason(t) /\ ~test

\* runUpdater, up to the events request
OddsRun ==
  /\ pc = "run"
  /\ prog = "odds"
  /\ IF OddsSeasonSkip(now, testMode)
       THEN pc' = "exit" /\ result' = OddsSkippedResult
       ELSE pc' = "events" /\ result' = result
  /\ UNCHANGED <<cfgVars, exitCode, pbpVars, oddsVars, tokVars, coVars, idVars, phases>>

\* the events request and the window filter
OddsEvents ==
  /\ pc = "events"
  /\ \E resp \in EventResponses :
       IF resp.kind = "json"
         THEN LET kept == FilterEvents(resp.events, getUpcomingGamesWindow(now))
              IN /\ allEvents' = resp.events
                 /\ events' = kept
                 /\ IF Len(kept) = 0
                      THEN pc' = "exit" /\ result' = OddsEmptyResult
                      ELSE pc' = "market" /\ result' = result
         ELSE /\ pc' = "exit"
              /\ result' = OddsFailedResult(IF resp.kind = "status"
                                              THEN "Events API failed"
                                              ELSE "fetch threw")
              /\ UNCHANGED <<allEvents, events>>
  /\ UNCHANGED << cfgVars, exitCode, pbpVars, eventIdx, marketIdx, eventLines,
                  totalInserted, withData, noData, records, oddsFetches,
                  oddsUpserts, acceptedLines, oddsErrored, tokVars, coVars, idVars,
                  phases >>

\* the end of one round of the loop over the markets, with `lines` the
\* event's count after it: the next market, the next event, or the result
OddsAdvance(lines) ==
  IF marketIdx < Len(Markets)
    THEN /\ marketIdx' = marketIdx + 1
         /\ eventLines' = lines
         /\ pc' = "market"
         /\ UNCHANGED <<eventIdx, totalInserted, withData, noData, result>>
    ELSE LET total == IF lines > 0 THEN totalInserted + lines ELSE totalInserted
             nWith == IF lines > 0 THEN withData + 1 ELSE withData
             nWithout == IF lines > 0 THEN noData ELSE noData + 1
         IN /\ marketIdx' = 1
            /\ eventLines' = 0
            /\ eventIdx' = eventIdx + 1
            /\ totalInserted' = total
            /\ withData' = nWith
            /\ noData' = nWithout
            /\ IF eventIdx < Len(events)
                 THEN pc' = "market" /\ result' = result
                 ELSE /\ pc' = "exit"
                      /\ result' = OddsResult(testMode, Len(events), nWith, nWithout, total)

\* a dry run that still sends the records
OddsDryRunNever(test) == FALSE

OddsDryRun(test) == test

\* one round of the loop over the markets, up to the upsert: the delay, the
\* request, and the records built from its answer
OddsMarket ==
  /\ pc = "market"
  /\ oddsFetches' = oddsFetches + 1
  /\ \E resp \in OddsResponses(Markets[marketIdx]) :
       IF resp.kind = "throw"
         THEN /\ pc' = "exit"
              /\ result' = OddsFailedResult("fetch threw")
              /\ UNCHANGED << eventIdx, marketIdx, eventLines, totalInserted, withData,
                              noData, records >>
       ELSE IF resp.kind = "status"
         THEN OddsAdvance(eventLines) /\ UNCHANGED records
       ELSE LET recs == BuildRecords(events[eventIdx], resp.data)
            IN /\ records' = recs
               /\ IF Len(recs) > 0 /\ ~OddsDryRun(testMode)
                    THEN /\ pc' = "oddsUpsert"
                         /\ UNCHANGED << eventIdx, marketIdx, eventLines, totalInserted,
                                         withData, noData, result >>
                    ELSE OddsAdvance(eventLines + Len(recs))
  /\ UNCHANGED << cfgVars, exitCode, pbpVars, allEvents, events, oddsUpserts,
                  acceptedLines, oddsErrored, tokVars, coVars, idVars, phases >>

\* an upsert whose records are counted whatever it answered
OddsCountedAlways(outcome, recs) == Len(recs)

\* eventLines += records.length, in the branch without error only
OddsCounted(outcome, recs) == IF outcome = "ok" THEN Len(recs) ELSE 0

\* the upsert of the market's records; an error and an exception are logged
\* and the loop goes on
OddsUpsert ==
  /\ pc = "oddsUpsert"
  /\ oddsUpserts' = oddsUpserts + 1
  /\ \E outcome \in UpsertOutcomes :
       LET added == OddsCounted(outcome, records)
       IN /\ acceptedLines' = acceptedLines + (IF outcome = "ok" THEN Len(records) ELSE 0)
          /\ oddsErrored' = oddsErrored + (IF outcome = "error" THEN 1 ELSE 0)
          /\ OddsAdvance(eventLines + added)
  /\ UNCHANGED << cfgVars, exitCode, pbpVars, allEvents, events, records,
                  oddsFetches, tokVars, coVars, idVars, phases >>


(***************************************************************************)
(* The tokenizer on its own                                                *)
(***************************************************************************)
TokAlphabet == {"a", Comma, Quote, " "}
QuotedExample == <<"a", Comma, Quote, "b", Comma, "c", Quote, Comma, "d">>
TokLines == SeqsUpTo(TokAlphabet, MaxLineLen) \cup {QuotedExample} \cup LineKinds

Tokenize ==
  /\ ~tokDone
  /\ tokOut' = ParseLine(tokLine)
  /\ tokDone' = TRUE
  /\ UNCHANGED <<tokLine, pipeVars, coVars, idVars>>

TokInit ==
  /\ tokLine \in TokLines
  /\ tokOut = <<>>
  /\ tokDone = FALSE
  /\ prog = "index"
  /\ testMode = TRUE
  /\ env = [SUPABASE_URL |-> TRUE, SUPABASE_SERVICE_ROLE_KEY |-> TRUE, ODDS_API_KEY |-> TRUE]
  /\ now = DateUTC(2025, 11, 4, 0, 0, 0)
  /\ pc = "tokenizer"
  /\ PipeIdle
  /\ CoIdle
  /\ IdIdle

TokNext == Tokenize

SpecTok == TokInit /\ [][TokNext]_vars

(***************************************************************************)
(* The coercion helpers on their own                                       *)
(***************************************************************************)
CoAlphabet == {"N", "A", "1", " "}
CoInputs ==
  {Null, Undefined} \cup {Str(t) : t \in SeqsUpTo(CoAlphabet, MaxValueLen) \cup {TrueText}}

Coerce ==
  /\ ~coDone
  /\ coOut' = ApplyHelper(coHelper, coIn)
  /\ coDone' = TRUE
  /\ UNCHANGED <<coHelper, coIn, pipeVars, tokVars, idVars>>

CoInit ==
  /\ coHelper \in Helpers
  /\ coIn \in CoInputs
  /\ coOut = Null
  /\ coDone = FALSE
  /\ prog = coHelper[1]
  /\ testMode = TRUE
  /\ env = [SUPABASE_URL |-> TRUE, SUPABASE_SERVICE_ROLE_KEY |-> TRUE, ODDS_API_KEY |-> TRUE]
  /\ now = DateUTC(2025, 11, 4, 0, 0, 0)
  /\ pc = "helper"
  /\ PipeIdle
  /\ TokIdle
  /\ IdIdle

CoNext == Coerce

SpecCoerce == CoInit /\ [][CoNext]_vars

(***************************************************************************)
(* The id template on its own                                              *)
(***************************************************************************)
IdAlphabet == {"A", ".", " "}
Under == <<"U", "n", "d", "e", "r">>

\* outcomes that pass the skip test: a player, a line, a name
IdOutcomes ==
  { [description |-> Str(d), point |-> Num(p), name |-> Str(n), price |-> Num(2)] :
      d \in SeqsUpTo(IdAlphabet, MaxValueLen) \ {<<>>}, p \in {5, 15}, n \in {Over, Under} }

\* the records of the two outcomes, built for one event, bookmaker and market
MakeIds ==
  /\ ~idDone
  /\ idOut' = << OddsRecord([id |-> "first"], [key |-> "draftkings"],
                            [key |-> Markets[1]], idA),
                 OddsRecord([id |-> "first"], [key |-> "draftkings"],
                            [key |-> Markets[1]], idB) >>
  /\ idDone' = TRUE
  /\ UNCHANGED <<idA, idB, pipeVars, tokVars, coVars>>

IdInit ==
  /\ idA \in IdOutcomes
  /\ idB \in IdOutcomes
  /\ idOut = <<>>
  /\ idDone = FALSE
  /\ prog = "odds"
  /\ testMode = TRUE
  /\ env = [SUPABASE_URL |-> TRUE, SUPABASE_SERVICE_ROLE_KEY |-> TRUE, ODDS_API_KEY |-> TRUE]
  /\ now = DateUTC(2025, 11, 4, 15, 30, 0)
  /\ pc = "helper"
  /\ PipeIdle
  /\ TokIdle
  /\ CoIdle

IdNext == MakeIds

SpecId == IdInit /\ [][IdNext]_vars

(***************************************************************************)
(* The specification                                                       *)
(***************************************************************************)
Next ==
  \/ Startup
  \/ PbpRun
  \/ FetchSource
  \/ PbpTransform
  \/ PbpUpsert
  \/ PbpPause
  \/ OddsRun
  \/ OddsEvents
  \/ OddsMarket
  \/ OddsUpsert
  \/ Exit

Spec == Init /\ [][Next]_vars

(***************************************************************************)
(* Properties                                                              *)
(***************************************************************************)
Ended == pc \in {"exit", "exited"}

\* fetchAndParsePbp returned: a body was taken and parsed
Parsed == prog \in PbpProgs /\ csvLines # <<>> /\ pc \notin {"startup", "run", "fetch"}

RECURSIVE SumPayloads(_, _)
SumPayloads(calls, outcome) ==
  IF calls = <<>> THEN 0
  ELSE (IF Head(calls).outcome = outcome THEN Len(Head(calls).payload) ELSE 0)
         + SumPayloads(Tail(calls), outcome)

NoUpsertThrew == \A k \in 1..Len(upserts) : upserts[k].outcome # "throw"

ReportedSuccessful ==
  IF prog = "index" THEN result.update_results.successful ELSE result.processed
ReportedFailed ==
  IF prog = "index" THEN result.update_results.failed ELSE result.failed

\* C1: in a live play-by-play run in which upsert calls answer with or
\* without an error value, every batch is submitted exactly once and in
\* order whatever the other batches answered, the reported successful and
\* failed counts are the record counts of the batches without and with an
\* error, and the errors list of index.js has exactly one entry per failed
\* batch and none for any other.
C1_BatchFailureIsolated ==
  (prog \in PbpProgs /\ ~testMode /\ Ended /\ upserts # <<>> /\ NoUpsertThrew) =>
    LET n == Len(transformedPlays)
        nBatches == (n + batchSize - 1) \div batchSize
        errs == result.update_results.errors
    IN /\ Len(upserts) = nBatches
       /\ \A k \in 1..nBatches :
            /\ upserts[k].num = k
            /\ upserts[k].payload =
                 SubSeq(transformedPlays, (k - 1) * batchSize + 1, Min(k * batchSize, n))
       /\ ReportedSuccessful = SumPayloads(upserts, "ok")
       /\ ReportedFailed = SumPayloads(upserts, "error")
       /\ prog = "index" =>
            \A k \in 1..nBatches :
              Cardinality({j \in 1..Len(errs) : errs[j] = [batch |-> k]})
                = IF upserts[k].outcome = "error" THEN 1 ELSE 0
       /\ prog = "index" =>
            Len(errs) = Cardinality({k \in 1..nBatches : upserts[k].outcome = "error"})

C1_Witness ==
  /\ prog = "index" /\ pc = "exited" /\ ~testMode
  /\ Len(upserts) = 3
  /\ upserts[1].outcome = "ok" /\ upserts[2].outcome = "error" /\ upserts[3].outcome = "ok"
  /\ result.update_results.failed = batchSize
  /\ result.update_results.errors = <<[batch |-> 2]>>

\* C2: every record passed to an upsert call of the play-by-play programs
\* has a non-null play_id and a non-null game_id.
C2_SubmittedHaveIdentity ==
  \A k \in 1..Len(upserts) :
    \A r \in 1..Len(upserts[k].payload) :
      /\ upserts[k].payload[r].play_id # Null
      /\ upserts[k].payload[r].game_id # Null

\* C3: in a dry run no program calls upsert, and the play-by-play result
\* reports every assembled record as successful and none as failed.
C3_DryRunNoUpsert ==
  testMode =>
    /\ upserts = <<>>
    /\ oddsUpserts = 0
    /\ pc # "oddsUpsert"
    /\ (prog \in PbpProgs /\ Ended /\ transformedPlays # <<>>) =>
         /\ result.success
         /\ ReportedSuccessful = Len(transformedPlays)
         /\ IF prog = "index"
              THEN result.update_results.failed = 0
              ELSE "failed" \in DOMAIN result => result.failed = 0

C3_Witness ==
  /\ prog = "index" /\ testMode /\ pc = "exited"
  /\ Len(transformedPlays) = 150
  /\ result.update_results.successful = 150
  /\ upserts = <<>>

\* the line's tokens, counted from its text: one more than its commas that
\* have an even number of quotes before them
QuotesBefore(line, j) == Cardinality({k \in 1..(j - 1) : line[k] = Quote})
SplitPoints(line) ==
  {j \in 1..Len(line) : line[j] = Comma /\ QuotesBefore(line, j) % 2 = 0}
TokenCount(line) == Cardinality(SplitPoints(line)) + 1
HeaderCount(line) == Cardinality({j \in 1..Len(line) : line[j] = Comma}) + 1
LineWellFormed(k) == TokenCount(csvLines[k]) = HeaderCount(csvLines[1])

\* the texts among the data lines whose token count is not the header's
MalformedTexts ==
  LET texts == {csvLines[k] : k \in 2..Len(csvLines)}
      columns == HeaderCount(csvLines[1])
  IN {l \in texts : TokenCount(l) # columns}

\* the text of line k's last field, when the line is well formed and the
\* header is play_id,game_id,game_date
LastSplit(line) == CHOOSE j \in SplitPoints(line) : \A x \in SplitPoints(line) : x <= j
DateText(line) == Trim(StripQuotes(SubSeq(line, LastSplit(line) + 1, Len(line))))

\* C4: a well-formed row whose game_date is absent or is no date is admitted
\* by the window filter of both play-by-play programs.
C4_UndatedRowsAdmitted ==
  Parsed =>
    \A k \in 2..Len(csvLines) :
      (LineWellFormed(k) /\ NewDate(DateText(csvLines[k])) = NaN) =>
        \E r \in 1..Len(pbpData) : pbpData[r].ln = k

\* the calendar month of instant t, and the midnight that starts its UTC day,
\* found on the calendar
MonthOf(t) ==
  LET y == FullYear(t)
  IN CHOOSE m \in 1..12 :
       DateUTC(y, m, 1, 0, 0, 0) <= t /\ (m = 12 \/ t < DateUTC(y, m + 1, 1, 0, 0, 0))
DayStart(t) ==
  LET y == FullYear(t)
      m == MonthOf(t)
  IN CHOOSE s \in {DateUTC(y, m, d, 0, 0, 0) : d \in 1..DaysInMonth(y, m)} :
       s <= t /\ t < s + SecondsPerDay

\* the day starts of the clocks the odds program is run at
DayStarts == [t \in OddsClocks |-> DayStart(t)]

\* the instant of a commence_time, -1 when it is absent or no date
Instant(e) ==
  IF e.commence_time.t # "string" THEN -1
  ELSE LET d == NewDate(e.commence_time.s)
       IN IF d = NaN THEN -1 ELSE d.n

KeptIds == {events[k].id : k \in 1..Len(events)}
AllIds == {allEvents[k].id : k \in 1..Len(allEvents)}

\* C5: the odds program keeps an event iff start <= commence_time < end, with
\* start the 00:00 UTC of the run's day and end four days later; an event
\* without a readable commence_time is dropped.
C5_EventWindow ==
  prog = "odds" =>
    LET start == DayStarts[now]
        end == start + 4 * SecondsPerDay
        Keep(e) == Instant(e) # -1 /\ start <= Instant(e) /\ Instant(e) < end
    IN /\ events = SelectSeq(allEvents, Keep)
       /\ now = DateUTC(2025, 11, 4, 15, 30, 0) =>
            /\ KeptIds = AllIds \cap {"first", "last"}
            /\ start = DateUTC(2025, 11, 4, 0, 0, 0)

C5_Witness ==
  /\ prog = "odds" /\ pc = "market"
  /\ [id |-> "first", commence_time |-> Str(Nov04 \o FirstSecond)] = events[1]
  /\ Len(events) = 1
  /\ Len(allEvents) = 2
  /\ allEvents[1].id = "after"

Rejected(entry) == ~(entry.plausible /\ entry.lines >= 2)

\* C6 as stated: the sources are tried in list order, and the source taken is
\* the first whose response is OK with a body of the minimum length: every
\* source tried before another one had a failed fetch, a non-OK status or a
\* body below the minimum length.
C6_FirstPlausibleTaken ==
  prog \in PbpProgs =>
    /\ \A k \in 1..Len(fetched) : fetched[k].src = k
    /\ \A k \in 1..(Len(fetched) - 1) : ~fetched[k].plausible

\* C6 as amended: the sources are tried in list order; the source taken is
\* the first whose response is OK with a body of at least 10,000 characters
\* and at least two non-blank lines, its lines are the ones parsed, and no
\* source is fetched after it; while none is taken, every source tried so
\* far was rejected.
C6_FirstUsableTaken ==
  prog \in PbpProgs =>
    /\ \A k \in 1..Len(fetched) : fetched[k].src = k
    /\ Len(fetched) <= NumSources
    /\ \A k \in 1..(Len(fetched) - 1) : Rejected(fetched[k])
    /\ (pc = "fetch" /\ fetched # <<>>) => Rejected(fetched[Len(fetched)])
    /\ pc = "fetch" => csvLines = <<>> /\ srcIdx = Len(fetched) + 1
    /\ csvLines # <<>> =>
         /\ ~Rejected(fetched[Len(fetched)])
         /\ Len(csvLines) = fetched[Len(fetched)].lines

C6_Witness ==
  /\ prog = "index" /\ pc = "transform"
  /\ Len(fetched) = 3
  /\ fetched[1] = [src |-> 1, plausible |-> FALSE, lines |-> 0]
  /\ fetched[2] = [src |-> 2, plausible |-> TRUE, lines |-> 1]
  /\ fetched[3] = [src |-> 3, plausible |-> TRUE, lines |-> 3]

AllSourcesFailed ==
  /\ prog \in PbpProgs
  /\ Len(fetched) = NumSources
  /\ \A k \in 1..NumSources : Rejected(fetched[k])

\* C7: when every source fails, the play-by-play run makes no upsert call,
\* its result has success = false and the process exits with a non-zero code.
C7_SourcesExhausted ==
  AllSourcesFailed =>
    /\ upserts = <<>>
    /\ Ended
    /\ result.success = FALSE
    /\ pc = "exited" => exitCode # 0

C7_Witness ==
  /\ AllSourcesFailed /\ prog = "part_000" /\ pc = "exited" /\ exitCode = 1
  /\ fetched[1].plausible = FALSE

\* C8: once runUpdater has started, the exit code is 0 iff the result has
\* success = true; a run skipped by the season guard and a run with no
\* record or event in its window exit with 0.
C8_ExitCodeIffSuccess ==
  (pc = "exited" /\ result # NoResult) =>
    /\ exitCode = 0 <=> result.success
    /\ exitCode \in {0, 1}
    /\ "skipped" \in DOMAIN result => exitCode = 0
    /\ (Parsed /\ pbpData = <<>>) => exitCode = 0
    /\ (prog = "odds" /\ allEvents # <<>> /\ events = <<>>) => exitCode = 0

C8_Witness ==
  /\ pc = "exited" /\ prog = "index" /\ ~testMode
  /\ result = SkippedResult("index")
  /\ exitCode = 0

\* C9: a data line whose token count differs from the header's produces no
\* raw record and no submitted record, and the well-formed lines after it
\* are still parsed.
C9_MalformedLineDropped ==
  Parsed =>
    LET bad == MalformedTexts
        Recent(l) == DateGE(NewDate(DateText(l)), cutoffDate(now))
    IN /\ \A r \in 1..Len(pbpData) : csvLines[pbpData[r].ln] \notin bad
       /\ \A r \in 1..Len(transformedPlays) : csvLines[transformedPlays[r].ln] \notin bad
       /\ \A k \in 1..Len(upserts) :
            \A r \in 1..Len(upserts[k].payload) :
              csvLines[upserts[k].payload[r].ln] \notin bad
       /\ bad # {} =>
            \A k \in 2..Len(csvLines) :
              ( /\ csvLines[k] \notin bad
                /\ Recent(csvLines[k])
                /\ \E m \in 2..(k - 1) : csvLines[m] \in bad ) =>
                \E r \in 1..Len(pbpData) : pbpData[r].ln = k

C9_Witness ==
  /\ Parsed /\ pc = "upsert"
  /\ csvLines = <<HeaderLine, LineShort, LineValid>>
  /\ Len(pbpData) = 1 /\ pbpData[1].ln = 3

\* the tokens of a line, cut at its split points
Cut(line, k) ==
  IF k = 0 THEN 0
  ELSE IF k > Cardinality(SplitPoints(line)) THEN Len(line) + 1
  ELSE CHOOSE j \in SplitPoints(line) :
         Cardinality({x \in SplitPoints(line) : x < j}) = k - 1
Segment(line, k) == SubSeq(line, Cut(line, k - 1) + 1, Cut(line, k) - 1)
ExpectedTokens(line) ==
  [k \in 1..TokenCount(line) |-> Trim(StripQuotes(Segment(line, k)))]

\* C10: the tokenizer splits a line only at the commas outside double-quoted
\* regions, keeps the quoted commas in their token, drops the quote
\* characters and trims every token; a,"b,c",d gives a, b,c and d.
C10_QuoteAwareSplit ==
  tokDone =>
    /\ tokOut = ExpectedTokens(tokLine)
    /\ \A k \in 1..Len(tokOut) :
         /\ \A c \in 1..Len(tokOut[k]) : tokOut[k][c] # Quote
         /\ tokOut[k] # <<>> =>
              ~IsSpace(tokOut[k][1]) /\ ~IsSpace(tokOut[k][Len(tokOut[k])])
    /\ tokLine = QuotedExample =>
         tokOut = << <<"a">>, <<"b", Comma, "c">>, <<"d">> >>

C10_Witness ==
  /\ tokDone
  /\ tokLine = QuotedExample
  /\ tokOut = << <<"a">>, <<"b", Comma, "c">>, <<"d">> >>

\* C11: each coercion helper of index.js and of part_000 returns null for the
\* empty string, the literal NA, undefined and null.
C11_SentinelsGiveNull ==
  (coDone /\ coIn \in {Str(<<>>), Str(NAText), Undefined, Null}) => coOut = Null

C11_Witness ==
  /\ coDone
  /\ coHelper = <<"part_000", "safeText">>
  /\ coIn = Str(NAText)
  /\ coOut = Null

\* the number of rejected rows the result reports, -1 when it reports none
ReportedRejected ==
  IF "data_transformation" \in DOMAIN result THEN result.data_transformation.skipped_plays
  ELSE IF "plays_skipped" \in DOMAIN result THEN result.plays_skipped
  ELSE -1

\* C12: when a play-by-play run that admitted raw rows has ended, its result
\* reports a number of rejected rows, and the transformed records plus that
\* number are the admitted raw rows.
C12_RejectedReported ==
  (Parsed /\ Ended /\ pbpData # <<>>) =>
    /\ ReportedRejected # -1
    /\ Len(transformedPlays) + ReportedRejected = Len(pbpData)

RECURSIVE Payloads(_)
Payloads(calls) ==
  IF calls = <<>> THEN <<>>
  ELSE Payloads(SubSeq(calls, 1, Len(calls) - 1)) \o calls[Len(calls)].payload

\* C13: in a live play-by-play run the payloads of the upsert calls made so
\* far, concatenated in call order, are a prefix of the transformed records;
\* every payload is non-empty and has 100 records unless it is the one that
\* ends the sequence; when the loop has ended without an exception the
\* concatenation is the whole sequence.
C13_PayloadsPartition ==
  (prog \in PbpProgs /\ upserts # <<>>) =>
    LET flat == Payloads(upserts)
        n == Len(transformedPlays)
    IN /\ Len(flat) <= n
       /\ flat = SubSeq(transformedPlays, 1, Len(flat))
       /\ \A k \in 1..Len(upserts) :
            /\ upserts[k].payload # <<>>
            /\ Len(upserts[k].payload) <= 100
            /\ Len(upserts[k].payload) < 100 => (k = Len(upserts) /\ Len(flat) = n)
       /\ (Ended /\ NoUpsertThrew) => flat = transformedPlays

C13_Witness ==
  /\ prog = "part_000" /\ pc = "exited" /\ ~testMode
  /\ Len(transformedPlays) = 250
  /\ Len(upserts) = 3
  /\ Len(upserts[3].payload) = 50
  /\ Payloads(upserts) = transformedPlays

\* C14: in a live play-by-play run of B batches the k-th pause is the one
\* after batch k and lasts 200 ms, every batch but the last is followed by
\* its pause before the next batch is submitted, whatever it answered, and a
\* run whose upserts all returned has made exactly B - 1 pauses.
C14_PausesBetweenBatches ==
  (prog \in PbpProgs /\ upserts # <<>>) =>
    LET n == Len(transformedPlays)
        B == (n + 99) \div 100
    IN /\ \A k \in 1..Len(pauses) : pauses[k] = [after |-> k, ms |-> 200]
       /\ Len(pauses) <= B - 1
       /\ Len(pauses) <= Len(upserts)
       /\ pc = "upsert" => Len(pauses) = Len(upserts)
       /\ pc = "pause" => Len(pauses) = Len(upserts) - 1
       /\ Ended => Len(pauses) = Len(upserts) - 1
       /\ (Ended /\ NoUpsertThrew) => (Len(upserts) = B /\ Len(pauses) = B - 1)

C14_Witness ==
  /\ prog = "index" /\ pc = "exited"
  /\ Len(upserts) = 3
  /\ upserts[1].outcome = "error" /\ upserts[2].outcome = "ok" /\ upserts[3].outcome = "error"
  /\ pauses = <<[after |-> 1, ms |-> 200], [after |-> 2, ms |-> 200]>>

MissingSetting ==
  \/ ~env.SUPABASE_URL
  \/ ~env.SUPABASE_SERVICE_ROLE_KEY
  \/ (prog = "odds" /\ ~env.ODDS_API_KEY)

NothingDone ==
  /\ fetched = <<>> /\ csvLines = <<>> /\ upserts = <<>>
  /\ allEvents = <<>> /\ oddsFetches = 0 /\ oddsUpserts = 0

\* C15: with a required setting missing (ODDS_API_KEY counts for the odds
\* program only) the process never starts runUpdater: it makes no fetch and
\* no upsert and exits with code 1, in a dry run as in a live run.
C15_MissingConfigExits ==
  (pc # "helper" /\ pc # "tokenizer" /\ MissingSetting) =>
    /\ pc \in {"startup", "exited"}
    /\ NothingDone
    /\ result = NoResult
    /\ pc = "exited" => exitCode = 1

C15_Witness ==
  /\ prog = "odds" /\ testMode /\ pc = "exited" /\ exitCode = 1
  /\ env = [SUPABASE_URL |-> TRUE, SUPABASE_SERVICE_ROLE_KEY |-> TRUE, ODDS_API_KEY |-> FALSE]
  /\ NothingDone

\* C16: a process that has exited with a non-zero code has produced a result
\* object with a success field.
C16_FailureHasSummary ==
  (pc = "exited" /\ exitCode # 0) =>
    /\ result # NoResult
    /\ "success" \in DOMAIN result

\* the positions of the phases in the order the run is to go through them
PhaseRank(ph) == CHOOSE k \in 1..Len(PhaseOrder) : PhaseOrder[k] = ph
FirstEntriesInOrder ==
  \A a, b \in 1..Len(phases.order) :
    a < b => PhaseRank(phases.order[a]) < PhaseRank(phases.order[b])

\* C17 as stated: the phases of a play-by-play run are entered in the order
\* FETCHING, PARSING, FILTERING, ASSEMBLING, PERSISTING, DONE and none is
\* entered a second time.
C17_PhasesEnteredOnce ==
  prog \in PbpProgs =>
    /\ FirstEntriesInOrder
    /\ \A ph \in PhaseNames : phases.count[ph] <= 1

\* C17 as amended: the phases are first entered in that order; ASSEMBLING,
\* PERSISTING and DONE are entered at most once; the run goes back from
\* PARSING to FETCHING exactly after each body whose split gave fewer than two
\* non-blank lines, and never once a body with two or more has been split;
\* FILTERING is entered once per well-formed data line, between the
\* tokenizing of that line and of the next.
C17_PhasesForward ==
  prog \in PbpProgs =>
    LET returned == {k \in 1..(Len(fetched) - 1) : fetched[k].plausible}
        bad == MalformedTexts
        wellFormed == {k \in 2..Len(csvLines) : csvLines[k] \notin bad}
    IN /\ FirstEntriesInOrder
       /\ \A ph \in {"ASSEMBLING", "PERSISTING", "DONE"} : phases.count[ph] <= 1
       /\ \A k \in returned : fetched[k].lines < 2
       /\ phases.count["FETCHING"] =
            IF fetched = <<>> THEN 0 ELSE 1 + Cardinality(returned)
       /\ csvLines # <<>> => (pc # "fetch" /\ phases.last # "FETCHING")
       /\ phases.count["FILTERING"] = Cardinality(wellFormed)
       /\ phases.count["PARSING"] <=
            Cardinality({k \in 1..Len(fetched) : fetched[k].plausible})
              + phases.count["FILTERING"]
       /\ pc = "exited" /\ result # NoResult => phases.last = "DONE"

C17_Witness ==
  /\ prog = "index" /\ pc = "exited" /\ ~testMode
  /\ phases.order = PhaseOrder
  /\ phases.count["FETCHING"] = 2
  /\ phases.count["PARSING"] = 3
  /\ phases.count["FILTERING"] = 2
  /\ phases.count["PERSISTING"] = 1

OutOfSeason ==
  IF prog = "odds" THEN ~isInSeason(now) ELSE ~inNflSeason(prog, now)

SkipMessages == {"Outside NFL season - sync skipped", "Outside NFL season (skipped)"}
IsSkipped == "message" \in DOMAIN result /\ result.message \in SkipMessages

\* C18: once a run is past its season guard, a live run outside the season
\* has ended as skipped with success = true and has made no fetch and no
\* upsert; a dry run is never skipped, and neither is a run inside the season;
\* 1 July 2025 is outside the season for all three programs.
C18_SeasonGuard ==
  /\ now = DateUTC(2025, 7, 1, 12, 0, 0) => OutOfSeason
  /\ IsSkipped => (~testMode /\ OutOfSeason)
  /\ (pc \in {"startup", "run"}) => (result = NoResult /\ NothingDone)
  /\ (pc \notin {"startup", "run", "helper", "tokenizer"} /\ ~MissingSetting) =>
       ((OutOfSeason /\ ~testMode) =>
          /\ Ended
          /\ IsSkipped
          /\ result.success
          /\ NothingDone
          /\ pc = "exited" => exitCode = 0)

C18_Witness ==
  /\ prog = "odds" /\ ~testMode /\ pc = "exited"
  /\ now = DateUTC(2025, 7, 1, 12, 0, 0)
  /\ result = OddsSkippedResult
  /\ NothingDone

\* the data-line texts whose date, read from the text, is at or after the
\* cutoff, and those whose date is before it
LineDates ==
  [l \in LineKinds |-> IF SplitPoints(l) = {} THEN NaN ELSE NewDate(DateText(l))]
OnOrAfter(texts, cutoff) ==
  {l \in texts : LineDates[l] # NaN /\ LineDates[l].n >= cutoff}
Before(texts, cutoff) ==
  {l \in texts : LineDates[l] # NaN /\ LineDates[l].n < cutoff}

\* C19: a well-formed row with a readable game_date has a raw record iff the
\* date is at or after the run's clock less 7 days; on 4 November 2025 00:00
\* a row of 28 October is kept, one of 27 October is dropped and one of
\* 4 January 2026 is kept.
C19_CutoffInclusive ==
  Parsed =>
    LET cutoff == now - 7 * 86400
        texts == {csvLines[k] : k \in 2..Len(csvLines)} \ MalformedTexts
        kept == OnOrAfter(texts, cutoff)
        dropped == Before(texts, cutoff)
        lns == {pbpData[r].ln : r \in 1..Len(pbpData)}
    IN /\ \A k \in 2..Len(csvLines) :
            /\ csvLines[k] \in kept => k \in lns
            /\ csvLines[k] \in dropped => k \notin lns
       /\ now = DateUTC(2025, 11, 4, 0, 0, 0) =>
            /\ texts \cap {LineValid, LineQuoted} \subseteq kept
            /\ texts \cap {LineOld} \subseteq dropped

C19_Witness ==
  /\ Parsed /\ prog = "part_000"
  /\ now = DateUTC(2025, 11, 4, 0, 0, 0)
  /\ csvLines = <<HeaderLine, LineOld, LineValid>>
  /\ Len(pbpData) = 1 /\ pbpData[1].ln = 3

\* the lines the records of a payload came from
PayloadLines(call) == {call.payload[r].ln : r \in 1..Len(call.payload)}

\* C20: no two upsert calls of a play-by-play run carry the same batch or
\* share a record, a batch that answered with an error is not among the
\* later calls, and no source is fetched twice.
C20_NothingRetried ==
  prog \in PbpProgs =>
    /\ \A j, k \in 1..Len(upserts) :
         j < k =>
           /\ upserts[j].num # upserts[k].num
           /\ upserts[j].payload # upserts[k].payload
           /\ PayloadLines(upserts[j]) \cap PayloadLines(upserts[k]) = {}
    /\ \A j, k \in 1..Len(fetched) : j < k => fetched[j].src # fetched[k].src

C20_Witness ==
  /\ prog = "part_000" /\ pc = "exited"
  /\ Len(fetched) = 2
  /\ Len(upserts) = 2
  /\ upserts[1].outcome = "error" /\ upserts[2].outcome = "ok"
  /\ result.processed = 50

\* the network and persistence calls that have completed
CallsDone ==
  Len(fetched) + Len(upserts) + oddsFetches + oddsUpserts

\* C21: every step of a run completes at most one network or persistence
\* call; an upsert of the play-by-play programs completes only from the
\* batch loop, after the pause that follows the previous upsert; the step
\* after an upsert with batches left is that pause, which completes no call;
\* in the odds program a per-market request completes only when no upsert is
\* pending, and while one is pending the only step is its completion.
C21_OneCallAtATime ==
  [][ /\ CallsDone' <= CallsDone + 1
      /\ Len(upserts') > Len(upserts) =>
           /\ pc = "upsert"
           /\ Len(pauses) = Len(upserts)
           /\ Len(upserts') = Len(upserts) + 1
           /\ pc' # "upsert"
      /\ pc = "pause" =>
           /\ upserts' = upserts /\ fetched' = fetched
           /\ Len(pauses') = Len(pauses) + 1
      /\ oddsFetches' > oddsFetches => (pc = "market" /\ oddsUpserts' = oddsUpserts)
      /\ pc = "oddsUpsert" =>
           (oddsUpserts' = oddsUpserts + 1 /\ oddsFetches' = oddsFetches)
      /\ Len(fetched') > Len(fetched) => (pc = "fetch" /\ upserts' = upserts)
    ]_vars

C21_Witness ==
  /\ prog = "index" /\ pc = "upsert" /\ ~testMode
  /\ Len(fetched) = 2
  /\ Len(upserts) = 2 /\ Len(pauses) = 2
  /\ Len(transformedPlays) = 250

\* the run has passed the record assembler with admitted rows
Assembled ==
  /\ prog \in PbpProgs
  /\ pbpData # <<>>
  /\ pc \notin {"startup", "run", "fetch", "transform"}

\* the admitted rows whose raw play_id and game_id are both present
IdentityRows ==
  SelectSeq(pbpData, LAMBDA play : Truthy(play.game_id) /\ Truthy(play.play_id))

\* C22: the transformed records are, in feed order, one record per admitted
\* row that passes the identity check, each the typed image of its own row
\* (no row is merged with or dropped for another of the same identity), and
\* the records submitted so far are the leading records in that order; a
\* live run whose upserts all returned has submitted every one of them.
C22_NoDedupOrderKept ==
  Assembled =>
    LET rows == IdentityRows
        sent == Payloads(upserts)
    IN /\ Len(transformedPlays) = Len(rows)
       /\ \A k \in 1..Len(rows) :
            /\ transformedPlays[k].ln = rows[k].ln
            /\ transformedPlays[k].game_id = safeText(rows[k].game_id)
            /\ transformedPlays[k].game_date = safeText(rows[k].game_date)
       /\ \A k \in 1..(Len(rows) - 1) : rows[k].ln < rows[k + 1].ln
       /\ Len(sent) <= Len(transformedPlays)
       /\ sent = SubSeq(transformedPlays, 1, Len(sent))
       /\ (Ended /\ ~testMode /\ NoUpsertThrew) => sent = transformedPlays

\* two admitted rows of one identity and different dates, both submitted
C22_Witness ==
  /\ Assembled /\ pc = "exited" /\ ~testMode
  /\ Len(pbpData) = 2
  /\ pbpData[1].play_id = pbpData[2].play_id
  /\ pbpData[1].game_id = pbpData[2].game_id
  /\ pbpData[1].game_date # pbpData[2].game_date
  /\ Len(upserts) = 1
  /\ Len(upserts[1].payload) = 2
  /\ upserts[1].payload[1].ln = 2 /\ upserts[1].payload[2].ln = 3
  /\ upserts[1].payload[1].game_date # upserts[1].payload[2].game_date

\* the six columns of the upsert's onConflict list
ConflictKey == <<"event_id", "bookmaker_key", "market_key", "player_name",
                 "line_value", "outcome_name">>

\* the key columns whose value comes from an outcome of the answer; the
\* other three are the texts of the event, the bookmaker and the market
OutcomeColumns == {"player_name", "line_value", "outcome_name"}

\* C23: every record the odds program is about to pass to upsert has a
\* defined, non-null value in each of the six conflict-key columns.
C23_ConflictKeyPresent ==
  (prog = "odds" /\ pc = "oddsUpsert") =>
    \A r \in 1..Len(records) :
      \A c \in 1..Len(ConflictKey) :
        /\ ConflictKey[c] \in DOMAIN records[r]
        /\ ConflictKey[c] \in OutcomeColumns => ~IsNullish(records[r][ConflictKey[c]])

\* the date lies in an NFL season: 5 September of a year up to 15 February
\* of the year after it
InSeasonDates(t) ==
  \E y \in Years : t >= DateUTC(y, 9, 5, 0, 0, 0) /\ t <= DateUTC(y + 1, 2, 15, 0, 0, 0)

\* C24: a run of index.js or of the odds program whose clock lies inside an
\* NFL season, in the autumn part or in the January-February part, does not
\* end as skipped.
C24_SeasonSpansNewYear ==
  (prog \in {"index", "odds"} /\ InSeasonDates(now) /\ Ended) => ~IsSkipped

\* an upsert call of the run ended with an exception
SomeUpsertThrew == \E k \in 1..Len(upserts) : upserts[k].outcome = "throw"

\* C25: a live play-by-play run in which an upsert call threw has still
\* submitted every batch, and its result counts as successful the records
\* of the batches that were accepted.
C25_ThrowDoesNotStopBatches ==
  (prog \in PbpProgs /\ ~testMode /\ Ended /\ SomeUpsertThrew) =>
    /\ Len(upserts) * batchSize >= Len(transformedPlays)
    /\ IF prog = "index"
         THEN result.update_results.successful = SumPayloads(upserts, "ok")
         ELSE /\ "processed" \in DOMAIN result
              /\ result.processed = SumPayloads(upserts, "ok")

\* the run made at least one upsert call and every call returned an error
AllUpsertsErrored ==
  IF prog = "odds"
    THEN oddsUpserts > 0 /\ oddsErrored = oddsUpserts
    ELSE upserts # <<>> /\ \A k \in 1..Len(upserts) : upserts[k].outcome = "error"

\* C26: a live run of any of the three programs whose upsert calls all
\* returned an error has ended with success = false and a non-zero exit code.
C26_AllErroredFails ==
  (pc = "exited" /\ ~testMode /\ AllUpsertsErrored) =>
    (~result.success /\ exitCode # 0)

\* the same for the two play-by-play programs alone
PbpAllErroredFails ==
  (prog \in PbpProgs /\ pc = "exited" /\ ~testMode /\ AllUpsertsErrored) =>
    (~result.success /\ exitCode = 1)

\* the conflict key of a record
KeyOf(r) == [c \in 1..Len(ConflictKey) |-> r[ConflictKey[c]]]

\* C27: two records have the same id exactly when they have the same
\* conflict key.
C27_IdOneToOne ==
  idDone => (idOut[1].id = idOut[2].id <=> KeyOf(idOut[1]) = KeyOf(idOut[2]))

\* the half that holds: records of one conflict key have one id
SameKeySameId ==
  idDone => (KeyOf(idOut[1]) = KeyOf(idOut[2]) => idOut[1].id = idOut[2].id)

\* the odds run ended with the summary of a completed run
OddsCompleted ==
  /\ prog = "odds" /\ Ended
  /\ "message" \in DOMAIN result /\ result.message = "Completed"

\* C28: an odds run that has issued a per-market request ends with the
\* summary of a completed run and has issued the request of every market of
\* every event in the window, whatever the requests answered.
C28_MarketFailureIsolated ==
  (prog = "odds" /\ Ended /\ oddsFetches > 0) =>
    /\ OddsCompleted
    /\ oddsFetches = Len(events) * Len(Markets)

\* the same when no request threw: a non-OK status is passed over
StatusFailureIsolated ==
  (prog = "odds" /\ Ended /\ oddsFetches > 0 /\ result # OddsFailedResult("fetch threw")) =>
    /\ OddsCompleted
    /\ oddsFetches = Len(events) * Len(Markets)

\* C29: in a live odds run no answer of an upsert ends the run: a run ends
\* from an upsert only after the last market of the last event, and a run
\* that ended otherwise than by a thrown request has issued every request
\* and ends with the summary; in the summary totalLinesInserted is the
\* number of records of the upsert calls that returned without error, and
\* eventsWithData + eventsWithNoData = eventsProcessed, the number of events
\* in the window; the running counts never exceed the accepted records.
C29_UpsertFailureIsolated ==
  (prog = "odds" /\ ~testMode) =>
    /\ pc = "oddsUpsert" => (eventIdx <= Len(events) /\ records # <<>>)
    /\ totalInserted + eventLines = acceptedLines
    /\ oddsErrored <= oddsUpserts
    /\ (Ended /\ oddsUpserts > 0 /\ result # OddsFailedResult("fetch threw")) =>
         /\ OddsCompleted
         /\ oddsFetches = Len(events) * Len(Markets)
    /\ OddsCompleted =>
         /\ result.totalLinesInserted = acceptedLines
         /\ result.eventsProcessed = Len(events)
         /\ result.eventsWithData + result.eventsWithNoData = result.eventsProcessed

\* the first event's upsert returned an error, the second event's was
\* accepted, and the run went through every market of both
C29_Witness ==
  /\ OddsCompleted /\ pc = "exited" /\ ~testMode
  /\ Len(events) = 2
  /\ oddsFetches = 4
  /\ oddsUpserts = 2 /\ oddsErrored = 1
  /\ acceptedLines = 1
  /\ result.totalLinesInserted = 1
  /\ result.eventsWithData = 1 /\ result.eventsWithNoData = 1
  /\ exitCode = 0

\* the other play-by-play program, and what its parser makes of the body
\* this run took, with this run's clock
OtherProg == IF prog = "index" THEN "part_000" ELSE "index"
OtherData == ParseRows(OtherProg, csvLines, ParseHeaders(csvLines[1]), cutoffDate(now))

\* the verdict of the other program's batch loop on this run's answers
OtherVerdict ==
  LiveResult(OtherProg, Len(transformedPlays), Len(skippedPlays), totalProcessed,
             errors).success

\* C30: on the body a play-by-play run took, with its clock in both
\* programs' season, the other program admits the same rows and assembles as
\* many records; and on the answers this run's upserts returned, the other
\* program's loop ends with the same success verdict and exit code.
C30_VariantsAgree ==
  (Parsed /\ inNflSeason("index", now) /\ inNflSeason("part_000", now)) =>
    /\ OtherData = pbpData
    /\ pc \notin {"transform"} =>
         Len(Transformed(OtherProg, OtherData)) = Len(transformedPlays)
    /\ (Ended /\ ~testMode /\ upserts # <<>> /\ NoUpsertThrew) =>
         /\ OtherVerdict = result.success
         /\ pc = "exited" => ExitCodeOf([success |-> OtherVerdict]) = exitCode

\* the same, for bodies in which every row has a date: the rows agree
SameRowsWhenDated ==
  (Parsed /\ inNflSeason("index", now) /\ inNflSeason("part_000", now)
     /\ \A k \in 2..Len(csvLines) : csvLines[k] # LineNoDate) =>
    OtherData = pbpData

\* rows admitted alike, some batches accepted and some not: the verdicts differ
VerdictsAgreeOnSameRows ==
  (Parsed /\ OtherData = pbpData /\ Ended /\ ~testMode /\ upserts # <<>>
     /\ NoUpsertThrew) =>
    OtherVerdict = result.success

=============================================================================
